---- MODULE Spec2Model ----
(***************************************************************************)
(* Shot Memory Store and Course Insight Engine of the Caddie.AI backend    *)
(* (src/index.js).  The persisted document data/shots.json, the memory     *)
(* helpers loadShots / saveShots / addShot / updateShotFeedback /          *)
(* findRelevantShots / generateInsightsFromHistory and the handlers of     *)
(* POST /api/feedback/caddie, POST /api/photo/analyze and                  *)
(* GET /api/insights/course.                                               *)
(*                                                                         *)
(* Representation of JavaScript values:                                    *)
(*   - a property that is missing or undefined is Undefined; null is Null; *)
(*   - an optional object (recommendation, shotContext) is a sequence of   *)
(*     length 0 (missing) or 1 (present);                                  *)
(*   - an ISO-8601 instant is the integer number of clock ticks it         *)
(*     denotes; NoTime stands for a null / missing instant;                *)
(*   - distance 0 stands for a null / missing distance (both are falsy).   *)
(***************************************************************************)
EXTENDS Integers, Sequences, FiniteSets, TLC

VARIABLES
  file,     \* data/shots.json: [state, text]
  active,   \* frames of the store calls that have loaded and not yet returned
  started,  \* number of handler invocations so far
  appended, \* the records handed to the addShot calls that returned, in that order
  resp,     \* what the last completed handler returned to its caller
  updates,  \* number of updateShotFeedback calls that returned true
  store0,   \* the records the document held at start-up
  query,    \* arguments of the last read operation
  out       \* result of the last read operation

vars == <<file, active, started, appended, resp, updates, store0, query, out>>

----------------------------------------------------------------------------
(* JavaScript values *)

Undefined == "undefined"
Null == "null"
NoTime == -1

\* JavaScript truthiness of a string-valued property (index.js:437 `if (shotId)`)
Truthy(v) == v \notin {Undefined, Null, ""}

\* e.includes("+") on the elevation strings of the model (index.js:199, 770)
UphillElevations == {"+4ft", "+10ft"}
IncludesPlus(e) == e \in UphillElevations

----------------------------------------------------------------------------
(* Sequence helpers *)

Range(s) == {s[i] : i \in 1..Len(s)}

RECURSIVE FilterSeq(_, _)
\* Array.prototype.filter with the set of kept elements given extensionally
FilterSeq(s, keep) ==
  IF s = <<>> THEN <<>>
  ELSE IF Head(s) \in keep THEN <<Head(s)>> \o FilterSeq(Tail(s), keep)
       ELSE FilterSeq(Tail(s), keep)

\* number of indices of s whose element satisfies membership in keep
CountIn(s, keep) == Cardinality({i \in 1..Len(s) : s[i] \in keep})

----------------------------------------------------------------------------
(* The persisted document *)

\* JSON.stringify(shots, null, 2): properties that are undefined are omitted,
\* which this representation already identifies with Undefined; order is kept.
JSONstringify(shots) == [json |-> "array", items |-> shots]

\* A JavaScript value as loadShots can return it: an array of records, or a
\* value that is not an array (an object, null, a number, a string)
Array(items) == [isArray |-> TRUE, items |-> items]
NotAnArray == [isArray |-> FALSE, items |-> <<>>]

\* text that is not JSON (a truncated or hand-damaged document)
GarbageText == [json |-> "garbage", items |-> <<>>]
\* text that is JSON but not a list: the document `{}`
ObjectText == [json |-> "object", items |-> <<>>]

\* JSON.parse(data) throws a SyntaxError
JSONparseThrows(text) == text.json = "garbage"

\* JSON.parse(data) of text it accepts: whatever value the text denotes
JSONparse(text) ==
  IF text.json = "array" THEN Array(text.items) ELSE NotAnArray

AbsentFile == [state |-> "absent", text |-> JSONstringify(<<>>)]

\* index.js:53-68: [] when the file is absent and when readFileSync or
\* JSON.parse throws; otherwise the parsed value, whatever it is
loadShots(f, readOk) ==
  IF f.state = "absent" THEN Array(<<>>)
  ELSE IF ~readOk \/ JSONparseThrows(f.text) THEN Array(<<>>)
  ELSE JSONparse(f.text)

\* index.js:73-87: the new document and the boolean returned
saveShots(f, shots, writeOk) ==
  IF writeOk
  THEN [ok |-> TRUE, file |-> [state |-> "present", text |-> JSONstringify(shots)]]
  ELSE [ok |-> FALSE, file |-> f]

----------------------------------------------------------------------------
(* Shot records *)

\* A record with every optional property missing
BlankShot ==
  [id |-> Undefined, courseId |-> Undefined, holeNumber |-> 0,
   shotType |-> Undefined, recommendation |-> <<>>, shotContext |-> <<>>,
   clubUsed |-> Undefined, distance |-> 0, suggestedClub |-> Undefined,
   userFeedback |-> Undefined, feedbackTimestamp |-> NoTime,
   timestamp |-> NoTime, uploadedAt |-> NoTime]

\* index.js:519 normalizedShotType
NormalizedShotType(shotType) ==
  IF Truthy(shotType) THEN shotType ELSE "approach"

\* index.js:601-606 the mock recommendation (confidence is a constant 0.83)
MockRecommendation(st) ==
  [club |-> IF st = "putt" THEN "Putter" ELSE IF st = "chip" THEN "SW" ELSE "7 iron",
   aim |-> IF st = "putt" THEN "center cup"
           ELSE IF st = "approach" THEN "center green" ELSE "center fairway",
   avoid |-> IF st = "putt" THEN "overshoot" ELSE "left bunker"]

\* index.js:614-621 the mock shot context
MockShotContext(st) ==
  [shotType |-> st,
   surface |-> IF st = "putt" THEN "green" ELSE IF st = "chip" THEN "rough" ELSE "fairway",
   conditions |-> [wind |-> "light", elevation |-> "+4ft"]]

\* index.js:627 `shot-${timestampForFile}-${random}`
ShotId(ms, rnd) == "shot-" \o ToString(ms) \o "-" \o rnd

\* index.js:443 `feedback-${Date.now()}-${random}`
FeedbackId(ms, rnd) == "feedback-" \o ToString(ms) \o "-" \o rnd

\* index.js:581-635 shotData of POST /api/photo/analyze
PhotoShotData(courseId, holeNumber, shotType, club, distance, now, rnd) ==
  LET st == NormalizedShotType(shotType)
      rec == MockRecommendation(st)
  IN [BlankShot EXCEPT
        !.id = ShotId(now, rnd),
        !.timestamp = now,
        !.holeNumber = holeNumber,
        !.shotType = st,
        !.courseId = courseId,
        !.clubUsed = IF Truthy(club) THEN club ELSE rec.club,
        !.distance = distance,
        !.recommendation = <<rec>>,
        !.shotContext = <<MockShotContext(st)>>,
        !.uploadedAt = now,
        !.userFeedback = Null,
        !.feedbackTimestamp = NoTime]

\* a feedback record that is given the mock analysis of an approach shot
FeedbackDataAnalysed(courseId, hole, suggestedClub, feedback, now, rnd) ==
  [BlankShot EXCEPT
     !.id = FeedbackId(now, rnd),
     !.courseId = courseId,
     !.holeNumber = hole,
     !.suggestedClub = suggestedClub,
     !.userFeedback = feedback,
     !.feedbackTimestamp = now,
     !.timestamp = now,
     !.recommendation = <<MockRecommendation("approach")>>,
     !.shotContext = <<MockShotContext("approach")>>]

\* index.js:442-450 feedbackData of POST /api/feedback/caddie
FeedbackData(courseId, hole, suggestedClub, feedback, now, rnd) ==
  [BlankShot EXCEPT
     !.id = FeedbackId(now, rnd),
     !.courseId = courseId,
     !.holeNumber = hole,
     !.suggestedClub = suggestedClub,
     !.userFeedback = feedback,
     !.feedbackTimestamp = now,
     !.timestamp = now]

----------------------------------------------------------------------------
(* Bounds and input domains *)

MaxCalls == 3

Courses == {"pebble", "augusta"}
Holes == {1, 2}
\* values of Date.now() / new Date() (the wall clock is not monotonic)
Times == {1, 2}
\* values of Math.random().toString(36).substr(2, 9)
Rands == {"a"}
\* feedback verdicts a client sends
Feedbacks == {"helpful", "off"}
\* shotType form values of the photo upload (Undefined: not supplied)
PhotoShotTypes == {"putt", Undefined}
\* courses and holes of the requests that reach the store handlers
StoreCourses == {"pebble"}
FeedbackHoles == {1}
\* shotId values a client sends with feedback: none, empty, an id no record
\* has, and the ids the handlers can have issued
ShotIdInputs ==
  {Undefined, "", "nonexistent"}
    \cup {ShotId(t, r) : t \in Times \cup {0}, r \in Rands}
    \cup {FeedbackId(t, r) : t \in Times, r \in Rands}

\* a shot stored by an earlier run of the server
EarlierShot == PhotoShotData("pebble", 2, "putt", Undefined, 0, 0, "a")
InitialStores == {<<>>, <<EarlierShot>>}

----------------------------------------------------------------------------
(* Store mutations, on the loaded array *)

\* a store that puts the new record first (unshift for push)
PushShotFront(shots, shotData) == <<shotData>> \o shots

\* index.js:94 shots.push(shotData)
PushShot(shots, shotData) == Append(shots, shotData)

\* index.js:103 shots.find(s => s.id === shotId): index of the first match, 0 if none
FindShot(shots, shotId) ==
  LET hits == {i \in 1..Len(shots) : shots[i].id = shotId}
  IN IF hits = {} THEN 0 ELSE CHOOSE i \in hits : \A j \in hits : i <= j

\* an update that also restamps the record
SetFeedbackAndTimestamp(shots, i, feedback, now) ==
  [shots EXCEPT ![i] = [@ EXCEPT !.userFeedback = feedback,
                                 !.feedbackTimestamp = now,
                                 !.timestamp = now]]

\* an update that keeps the first verdict a record was given
SetFeedbackOnce(shots, i, feedback, now) ==
  IF Truthy(shots[i].userFeedback) THEN shots
  ELSE [shots EXCEPT ![i] = [@ EXCEPT !.userFeedback = feedback,
                                      !.feedbackTimestamp = now]]

\* index.js:105-106 the found record with its feedback fields set
SetFeedback(shots, i, feedback, now) ==
  [shots EXCEPT ![i] = [@ EXCEPT !.userFeedback = feedback,
                                 !.feedbackTimestamp = now]]

----------------------------------------------------------------------------
(* The handlers as steps of the single-threaded event loop.  loadShots and *)
(* saveShots use fs.readFileSync / fs.writeFileSync and no handler awaits  *)
(* between them, so a store call that has loaded returns before the loop   *)
(* enters another handler.                                                 *)

\* store calls that await their file I/O: the loop may enter another handler
\* while one is between its load and its save
EventLoopFreeAsync == TRUE

\* index.js:92-96, 101-111: no await between loadShots() and saveShots()
EventLoopFree == active = {}

\* courseId and hole of the request body (index.js:425, 494-497)
Request(courseId, hole) == [courseId |-> courseId, hole |-> hole]

\* a store call between its loadShots() and its return: `loaded` is the
\* value loadShots() returned
Frame(n, handler, op, request, shotData, shotId, feedback, loaded) ==
  [n |-> n, handler |-> handler, op |-> op, request |-> request,
   shotData |-> shotData, shotId |-> shotId, feedback |-> feedback,
   shots |-> loaded.items, isArray |-> loaded.isArray]

\* POST /api/photo/analyze up to addShot's loadShots() (index.js:489-638, 93)
PhotoAnalyze(courseId, holeNumber, shotType, now, rnd, readOk) ==
  /\ started < MaxCalls
  /\ EventLoopFree
  /\ started' = started + 1
  /\ active' = active \cup
       {Frame(started + 1, "photo", "addShot", Request(courseId, holeNumber),
              PhotoShotData(courseId, holeNumber, shotType, Undefined, 0, now, rnd),
              ShotId(now, rnd), Undefined, loadShots(file, readOk))}
  /\ UNCHANGED <<file, appended, resp, updates, store0, query, out>>

\* POST /api/feedback/caddie up to the store call's loadShots()
\* (index.js:423-451, 93, 102)
FeedbackCaddie(shotId, courseId, hole, feedback, now, rnd, readOk) ==
  /\ started < MaxCalls
  /\ EventLoopFree
  /\ started' = started + 1
  /\ active' = active \cup
       {IF Truthy(shotId)
        THEN Frame(started + 1, "feedback", "updateShotFeedback",
                   Request(courseId, hole), BlankShot, shotId, feedback, loadShots(file, readOk))
        ELSE Frame(started + 1, "feedback", "addShot", Request(courseId, hole),
                   FeedbackData(courseId, hole, "7 iron", feedback, now, rnd),
                   shotId, feedback, loadShots(file, readOk))}
  /\ UNCHANGED <<file, appended, resp, updates, store0, query, out>>

\* the store call's outcome and the handler's HTTP response: `returned` is
\* the call's return value ("TypeError" when it threw), `saved` whether the
\* document was written, `failed` whether saveShots returned false, and
\* `replaced` the userFeedback the call overwrote (Undefined when none)
Response(fr, returned, saved, failed, status) ==
  LET i == FindShot(fr.shots, fr.shotId)
  IN [handler |-> fr.handler, op |-> fr.op, shotId |-> fr.shotId,
      returned |-> returned, saved |-> saved, failed |-> failed,
      replaced |-> IF fr.op = "updateShotFeedback" /\ i # 0
                   THEN fr.shots[i].userFeedback ELSE Undefined,
      status |-> status]

NoResponse ==
  [handler |-> Undefined, op |-> Undefined, shotId |-> Undefined,
   returned |-> Undefined, saved |-> FALSE, failed |-> FALSE,
   replaced |-> Undefined, status |-> 0]

\* a call on a value that is not an array throws a TypeError (shots.push /
\* shots.find is not a function); the photo handler's inner catch still
\* answers 200 (index.js:649-657), the feedback handler's catch answers 500
\* (index.js:455-458)
ThrowsTypeError(fr) ==
  /\ file' = file
  /\ resp' = Response(fr, "TypeError", FALSE, FALSE,
                      IF fr.handler = "photo" THEN 200 ELSE 500)

\* addShot from shots.push to its return, and the handler's response
\* (index.js:94-96, 454, 642)
AddShotReturn(fr, writeOk) ==
  /\ fr \in active
  /\ fr.op = "addShot"
  /\ IF fr.isArray
     THEN LET saved == saveShots(file, PushShot(fr.shots, fr.shotData), writeOk)
          IN /\ file' = saved.file
             /\ resp' = Response(fr, "undefined", saved.ok, ~saved.ok, 200)
             /\ appended' = Append(appended, fr.shotData)
     ELSE /\ ThrowsTypeError(fr)
          /\ appended' = appended
  /\ active' = active \ {fr}
  /\ UNCHANGED <<started, updates, store0, query, out>>

\* updateShotFeedback with saveShots(shots) moved out of `if (shot)`
UpdateShotFeedbackSaveAlways(fr, now, writeOk) ==
  /\ fr \in active
  /\ fr.op = "updateShotFeedback"
  /\ LET i == FindShot(fr.shots, fr.shotId)
     IN IF i # 0
        THEN /\ file' = saveShots(file, SetFeedback(fr.shots, i, fr.feedback, now), TRUE).file
             /\ resp' = Response(fr, "true", TRUE, FALSE, 200)
             /\ updates' = updates + 1
        ELSE /\ file' = saveShots(file, fr.shots, TRUE).file
             /\ resp' = Response(fr, "false", TRUE, FALSE, 200)
             /\ updates' = updates
  /\ active' = active \ {fr}
  /\ UNCHANGED <<started, appended, store0, query, out>>

\* updateShotFeedback from shots.find to its return, and the handler's
\* response (index.js:103-110, 454)
UpdateShotFeedbackReturn(fr, now, writeOk) ==
  /\ fr \in active
  /\ fr.op = "updateShotFeedback"
  /\ LET i == FindShot(fr.shots, fr.shotId)
     IN IF ~fr.isArray
        THEN /\ ThrowsTypeError(fr)
             /\ updates' = updates
        ELSE IF i # 0
        THEN LET saved == saveShots(file, SetFeedback(fr.shots, i, fr.feedback, now),
                                    writeOk)
             IN /\ file' = saved.file
                /\ resp' = Response(fr, "true", saved.ok, ~saved.ok, 200)
                /\ updates' = updates + 1
        ELSE /\ file' = file
             /\ resp' = Response(fr, "false", FALSE, FALSE, 200)
             /\ updates' = updates
  /\ active' = active \ {fr}
  /\ UNCHANGED <<started, appended, store0, query, out>>

\* arguments of a read operation; op names it
Query(op, courseId, holeNumber, shotType, club) ==
  [op |-> op, courseId |-> courseId, holeNumber |-> holeNumber,
   shotType |-> shotType, club |-> club]

NoQuery == Query(Undefined, Undefined, 0, Undefined, Undefined)

\* The document at start-up: none yet, or the records of an earlier run
Init ==
  /\ store0 \in InitialStores
  /\ file = IF store0 = <<>> THEN AbsentFile
            ELSE [state |-> "present", text |-> JSONstringify(store0)]
  /\ active = {}
  /\ started = 0
  /\ appended = <<>>
  /\ resp = NoResponse
  /\ updates = 0
  /\ query = NoQuery
  /\ out = <<>>

Next ==
  \/ \E c \in StoreCourses, h \in Holes, st \in PhotoShotTypes, t \in Times, r \in Rands :
       PhotoAnalyze(c, h, st, t, r, TRUE)
  \/ \E id \in ShotIdInputs, c \in StoreCourses, h \in FeedbackHoles, fb \in Feedbacks,
        t \in Times, r \in Rands :
       FeedbackCaddie(id, c, h, fb, t, r, TRUE)
  \/ \E fr \in active : AddShotReturn(fr, TRUE)
  \/ \E fr \in active, t \in Times : UpdateShotFeedbackReturn(fr, t, TRUE)

Spec == Init /\ [][Next]_vars

----------------------------------------------------------------------------
(* The same handlers under degraded conditions: the document found at      *)
(* start-up may be damaged, fs.readFileSync and fs.writeFileSync may throw *)
(* (EACCES, EMFILE, ENOSPC, EIO), and the feedback value is whatever the   *)
(* client put in the request body.                                         *)

\* data/shots.json as the server can find it: absent, written by an earlier
\* run, `{}`, or text that does not parse
DegradedFiles ==
  {AbsentFile,
   [state |-> "present", text |-> JSONstringify(<<EarlierShot>>)],
   [state |-> "present", text |-> ObjectText],
   [state |-> "present", text |-> GarbageText]}

\* req.body.feedback is stored as sent (index.js:425, 439, 446)
AnyFeedbacks == Feedbacks \cup {"great"}

\* shotId values sent with feedback: none, the id of the earlier run's shot,
\* the id a photo upload of this run is given
DegradedShotIds == {Undefined, ShotId(0, "a"), ShotId(1, "a")}

InitDegraded ==
  /\ file \in DegradedFiles
  /\ store0 = loadShots(file, TRUE).items
  /\ active = {}
  /\ started = 0
  /\ appended = <<>>
  /\ resp = NoResponse
  /\ updates = 0
  /\ query = NoQuery
  /\ out = <<>>

NextDegraded ==
  \/ \E readOk \in BOOLEAN : PhotoAnalyze("pebble", 1, "putt", 1, "a", readOk)
  \/ \E id \in DegradedShotIds, fb \in AnyFeedbacks, readOk \in BOOLEAN :
       FeedbackCaddie(id, "pebble", 1, fb, 1, "a", readOk)
  \/ \E fr \in active, writeOk \in BOOLEAN : AddShotReturn(fr, writeOk)
  \/ \E fr \in active, writeOk \in BOOLEAN : UpdateShotFeedbackReturn(fr, 2, writeOk)

SpecDegraded == InitDegraded /\ [][NextDegraded]_vars

----------------------------------------------------------------------------
(* The document as a reader outside the event loop sees it.                *)
(* fs.writeFileSync(shotsFile, text) opens the file itself with flag "w",  *)
(* which truncates it, writes the text and closes it (index.js:81): there  *)
(* is no temporary file and no rename.  Handlers of the same process never *)
(* run in between; a second process reading data/shots.json (another      *)
(* instance of the server started on the same directory) can.              *)

\* the file between the open and the write of fs.writeFileSync: empty text,
\* which JSON.parse rejects
TruncatedFile == [state |-> "present", text |-> GarbageText]

\* saveShots up to the open of fs.writeFileSync (index.js:75-81); the call's
\* AddShotReturn step writes the text
WriteFileSyncOpen(fr) ==
  /\ fr \in active
  /\ fr.op = "addShot"
  /\ fr.isArray
  /\ file # TruncatedFile
  /\ file' = TruncatedFile
  /\ UNCHANGED <<active, started, appended, resp, updates, store0, query, out>>

\* loadShots() in the second process (index.js:53-68, called at 117 and 705)
SecondProcessLoad ==
  /\ query' = Query("loadShots", Undefined, 0, Undefined, Undefined)
  /\ out' = loadShots(file, TRUE).items
  /\ UNCHANGED <<file, active, started, appended, resp, updates, store0>>

NextOverlap ==
  \/ \E h \in Holes, st \in PhotoShotTypes, t \in Times :
       PhotoAnalyze("pebble", h, st, t, "a", TRUE)
  \/ \E fr \in active : WriteFileSyncOpen(fr)
  \/ \E fr \in active : AddShotReturn(fr, TRUE)
  \/ SecondProcessLoad

SpecOverlap == Init /\ [][NextOverlap]_vars

----------------------------------------------------------------------------
(* The handlers when only the persistence write can fail: fs.writeFileSync *)
(* throws at its open (EACCES, EROFS: the document is untouched) or, after *)
(* the open has truncated the document, at its write (ENOSPC, EDQUOT,      *)
(* EIO: the document stays truncated).  The document read is well-formed   *)
(* and reads succeed.                                                      *)

\* shotId values sent with feedback: none, or the id a photo upload was given
WriteFaultShotIds == {Undefined, ShotId(1, "a")}

NextWriteFault ==
  \/ PhotoAnalyze("pebble", 1, "putt", 1, "a", TRUE)
  \/ \E id \in WriteFaultShotIds, c \in Courses, h \in Holes, fb \in Feedbacks :
       FeedbackCaddie(id, c, h, fb, 2, "a", TRUE)
  \/ \E fr \in active : WriteFileSyncOpen(fr)
  \/ \E fr \in active, writeOk \in BOOLEAN : AddShotReturn(fr, writeOk)
  \/ \E fr \in active, writeOk \in BOOLEAN : UpdateShotFeedbackReturn(fr, 2, writeOk)

SpecWriteFault == Init /\ [][NextWriteFault]_vars

----------------------------------------------------------------------------
(* Relevance Matcher: findRelevantShots *)

\* shot.recommendation?.club
RecommendationClub(shot) ==
  IF shot.recommendation = <<>> THEN Undefined ELSE shot.recommendation[1].club

\* the filter callback with the comment's broader rule: any shot of the course
MatchesCourseOnly(shot, courseId, holeNumber, shotType, club) ==
  shot.courseId = courseId

\* a filter whose club test passes a record that has no recommendation
MatchesLenientClub(shot, courseId, holeNumber, shotType, club) ==
  IF shot.courseId # courseId THEN FALSE
  ELSE IF shot.holeNumber = holeNumber
       THEN IF Truthy(shotType) /\ shot.shotType # shotType THEN FALSE
            ELSE IF Truthy(club) /\ shot.recommendation # <<>>
                      /\ RecommendationClub(shot) # club THEN FALSE
            ELSE TRUE
       ELSE FALSE

\* index.js:119-134 the filter callback
Matches(shot, courseId, holeNumber, shotType, club) ==
  IF shot.courseId # courseId THEN FALSE
  ELSE IF shot.holeNumber = holeNumber
       THEN IF Truthy(shotType) /\ shot.shotType # shotType THEN FALSE
            ELSE IF Truthy(club) /\ RecommendationClub(shot) # club THEN FALSE
            ELSE TRUE
       ELSE FALSE

\* a sort key that ignores uploadedAt
BestTimeTimestampOnly(shot) ==
  IF shot.timestamp # NoTime THEN shot.timestamp ELSE 0

\* index.js:136 new Date(a.timestamp || a.uploadedAt || 0), in clock ticks
BestTime(shot) ==
  IF shot.timestamp # NoTime THEN shot.timestamp
  ELSE IF shot.uploadedAt # NoTime THEN shot.uploadedAt
  ELSE 0

\* x put into s, sorted by descending key, before the first element the
\* comparator keyB - keyA orders after it (Array.prototype.sort is stable)
InsertDesc(s, x, key) ==
  LET later == {i \in 1..Len(s) : key[x] - key[s[i]] > 0}
      k == IF later = {} THEN Len(s) + 1
           ELSE CHOOSE i \in later : \A j \in later : i <= j
  IN SubSeq(s, 1, k - 1) \o <<x>> \o SubSeq(s, k, Len(s))

RECURSIVE SortDescBy(_, _)
\* array.sort((a, b) => key(b) - key(a))
SortDescBy(s, key) ==
  IF s = <<>> THEN <<>>
  ELSE InsertDesc(SortDescBy(SubSeq(s, 1, Len(s) - 1), key), s[Len(s)], key)

\* index.js:134-139, 912-916 .sort((a, b) => timeB - timeA)
SortNewestFirst(s) == SortDescBy(s, [sh \in Range(s) |-> BestTime(sh)])

\* index.js:116-140
findRelevantShots(f, courseId, holeNumber, shotType, club) ==
  LET shots == loadShots(f, TRUE).items
  IN SortNewestFirst(
       FilterSeq(shots, {sh \in Range(shots) :
                           Matches(sh, courseId, holeNumber, shotType, club)}))

\* a lookup that stores what it selected
FindRelevantSavesResult(courseId, holeNumber, shotType, club) ==
  /\ Truthy(courseId)
  /\ holeNumber # 0
  /\ query' = Query("findRelevantShots", courseId, holeNumber, shotType, club)
  /\ out' = findRelevantShots(file, courseId, holeNumber, shotType, club)
  /\ file' = saveShots(file, out', TRUE).file
  /\ UNCHANGED <<active, started, appended, resp, updates, store0>>

\* the memory lookup of POST /api/openai/complete (index.js:304-306)
FindRelevant(courseId, holeNumber, shotType, club) ==
  /\ Truthy(courseId)
  /\ holeNumber # 0
  /\ query' = Query("findRelevantShots", courseId, holeNumber, shotType, club)
  /\ out' = findRelevantShots(file, courseId, holeNumber, shotType, club)
  /\ UNCHANGED <<file, active, started, appended, resp, updates, store0>>

\* number of records of the stores the read operations are applied to
MaxShots == 3

\* (timestamp, uploadedAt) of the stored records: neither, uploadedAt only,
\* timestamp only, both
TimePairs == {<<NoTime, NoTime>>, <<1, NoTime>>, <<NoTime, 2>>, <<3, 1>>}

RelevantShots ==
  {[BlankShot EXCEPT !.id = "shot", !.courseId = c, !.holeNumber = h,
                     !.shotType = "approach",
                     !.recommendation = <<MockRecommendation("approach")>>,
                     !.timestamp = tp[1], !.uploadedAt = tp[2]] :
     c \in Courses, h \in Holes, tp \in TimePairs}

StoresOf(shots, n) == UNION {[1..k -> shots] : k \in 0..n}

\* a document holding any records of the domain, in any order
InitStore(stores) ==
  /\ store0 \in stores
  /\ file = [state |-> "present", text |-> JSONstringify(store0)]
  /\ active = {}
  /\ started = 0
  /\ appended = <<>>
  /\ resp = NoResponse
  /\ updates = 0
  /\ query = NoQuery
  /\ out = <<>>

InitRelevant == InitStore(StoresOf(RelevantShots, MaxShots))

NextRelevant ==
  \E c \in Courses, h \in Holes : FindRelevant(c, h, Undefined, Undefined)

SpecRelevant == InitRelevant /\ [][NextRelevant]_vars

\* shots of one hole that differ in shotType and recommendation: analysed
\* shots (index.js:601-606) and feedback-only records, which have neither
\* shotType nor recommendation (index.js:442-450)
TypedShots ==
  {[BlankShot EXCEPT !.id = "shot", !.courseId = "pebble", !.holeNumber = 5,
                     !.shotType = st,
                     !.recommendation = <<MockRecommendation(rt)>>,
                     !.timestamp = 1] :
     st \in {"approach", "putt"}, rt \in {"approach", "putt"}}
    \cup {FeedbackData("pebble", 5, "7 iron", fb, 1, "a") : fb \in Feedbacks}

\* shotType and club of the user payload (index.js:284-296): not supplied,
\* empty, or a value
QueryShotTypes == {Undefined, "", "approach", "putt"}
QueryClubs == {Undefined, "7 iron", "Putter"}

InitTyped == InitStore(StoresOf(TypedShots, MaxShots))

NextTyped ==
  \E st \in QueryShotTypes, club \in QueryClubs : FindRelevant("pebble", 5, st, club)

SpecTyped == InitTyped /\ [][NextTyped]_vars

----------------------------------------------------------------------------
(* Insight Synthesizer: generateInsightsFromHistory.  The narrative is the  *)
(* sequence of its sentences (joined by a blank line in the code); a        *)
(* sentence is the record of its kind and of the values its template        *)
(* interpolates.                                                            *)

RECURSIVE Uniq(_)
\* [...new Set(array)]: first occurrences, in order
Uniq(s) ==
  IF s = <<>> THEN <<>>
  ELSE LET init == Uniq(SubSeq(s, 1, Len(s) - 1))
       IN IF s[Len(s)] \in Range(init) THEN init ELSE Append(init, s[Len(s)])

RECURSIVE ConcatAll(_)
\* the sequences of ss, one after the other
ConcatAll(ss) ==
  IF ss = <<>> THEN <<>> ELSE Head(ss) \o ConcatAll(Tail(ss))

\* array.map(f) for f given as a function on the elements
MapSeq(s, f) == [i \in 1..Len(s) |-> f[s[i]]]

\* array.filter(Boolean) on string-valued elements
FilterTruthy(s) == FilterSeq(s, {v \in Range(s) : Truthy(v)})

\* index.js:155 shot.shotType || "unknown"
ShotTypeKey(shot) == IF Truthy(shot.shotType) THEN shot.shotType ELSE "unknown"

\* index.js:176 the threshold of the negative pattern, in percent
NegativePct == 50
\* index.js:183 the threshold of the positive pattern, in percent
PositivePct == 70
\* index.js:183 the least helpfulCount of the positive pattern
MinHelpful == 2

\* a negative rule that also fires on an even split
IsNegativePatternInclusive(helpfulCount, offCount) ==
  /\ helpfulCount + offCount > 0
  /\ helpfulCount * 100 <= NegativePct * (helpfulCount + offCount)
  /\ offCount > 0

\* a negative rule that fires only when no verdict was helpful
IsNegativePatternUnanimous(helpfulCount, offCount) ==
  /\ helpfulCount = 0
  /\ offCount > 0

\* index.js:173-176 totalWithFeedback > 0, helpfulPct < 50 && offCount > 0
IsNegativePattern(helpfulCount, offCount) ==
  /\ helpfulCount + offCount > 0
  /\ helpfulCount * 100 < NegativePct * (helpfulCount + offCount)
  /\ offCount > 0

\* a positive rule that asks for more than MinHelpful helpful verdicts
IsPositivePatternStrict(helpfulCount, offCount) ==
  /\ helpfulCount + offCount > 0
  /\ ~IsNegativePattern(helpfulCount, offCount)
  /\ helpfulCount * 100 >= PositivePct * (helpfulCount + offCount)
  /\ helpfulCount > MinHelpful

\* index.js:183 else if (helpfulPct >= 70 && helpfulCount >= 2)
IsPositivePattern(helpfulCount, offCount) ==
  /\ helpfulCount + offCount > 0
  /\ ~IsNegativePattern(helpfulCount, offCount)
  /\ helpfulCount * 100 >= PositivePct * (helpfulCount + offCount)
  /\ helpfulCount >= MinHelpful

\* index.js:178, 185 [...new Set(holeShots.map(s => s.recommendation?.club).filter(Boolean))]
ClubsUsed(holeShots) ==
  Uniq(FilterTruthy([i \in 1..Len(holeShots) |-> RecommendationClub(holeShots[i])]))

\* index.js:194 holeShots.map(s => s.shotContext).filter(Boolean)
Contexts(shots) ==
  ConcatAll([i \in 1..Len(shots) |-> shots[i].shotContext])

Sentence(kind, shotType, hole, helpful, off, clubs, count) ==
  [kind |-> kind, shotType |-> shotType, hole |-> hole, helpful |-> helpful,
   off |-> off, clubs |-> clubs, count |-> count]

\* index.js:168-191 the feedback-statistic sentence of one (shotType, hole) group
FeedbackSentences(shotType, holeNum, holeShots) ==
  LET helpfulCount == CountIn(holeShots, {sh \in Range(holeShots) : sh.userFeedback = "helpful"})
      offCount == CountIn(holeShots, {sh \in Range(holeShots) : sh.userFeedback = "off"})
  IN IF IsNegativePattern(helpfulCount, offCount)
     THEN <<Sentence("negative", shotType, holeNum, helpfulCount, offCount,
                     ClubsUsed(holeShots), 0)>>
     ELSE IF IsPositivePattern(helpfulCount, offCount)
     THEN <<Sentence("positive", shotType, holeNum, helpfulCount, offCount,
                     ClubsUsed(holeShots), 0)>>
     ELSE <<>>

\* index.js:194-212 the shot-context sentences of one (shotType, hole) group
ContextSentences(shotType, holeNum, holeShots) ==
  LET contexts == Contexts(holeShots)
      surfaces == Uniq(FilterTruthy([i \in 1..Len(contexts) |-> contexts[i].surface]))
      elevations ==
        Uniq(FilterTruthy([i \in 1..Len(contexts) |-> contexts[i].conditions.elevation]))
      uphill == CountIn(elevations, {e \in Range(elevations) : IncludesPlus(e)})
      rough == CountIn(contexts, {c \in Range(contexts) : c.surface = "rough"})
  IN IF contexts = <<>> THEN <<>>
     ELSE (IF uphill > 0
           THEN <<Sentence("uphill", shotType, holeNum, 0, 0, <<>>, uphill)>>
           ELSE <<>>)
          \o
          (IF "rough" \in Range(surfaces) /\ Len(holeShots) >= 2
           THEN <<Sentence("rough", shotType, holeNum, 0, 0, <<>>, rough)>>
           ELSE <<>>)

\* index.js:145-217
generateInsightsFromHistory(relevantShots) ==
  IF Len(relevantShots) = 0 THEN <<>>
  ELSE
    LET types == Uniq([i \in 1..Len(relevantShots) |-> ShotTypeKey(relevantShots[i])])
        ofType(t) == FilterSeq(relevantShots,
                               {sh \in Range(relevantShots) : ShotTypeKey(sh) = t})
        holesOf(shots) == Uniq([i \in 1..Len(shots) |-> shots[i].holeNumber])
        onHole(shots, h) == FilterSeq(shots, {sh \in Range(shots) : sh.holeNumber = h})
        group(t, h) ==
          FeedbackSentences(t, h, onHole(ofType(t), h))
            \o ContextSentences(t, h, onHole(ofType(t), h))
        typeSentences(t) ==
          LET hs == holesOf(ofType(t))
          IN ConcatAll([k \in 1..Len(hs) |-> group(t, hs[k])])
    IN ConcatAll([k \in 1..Len(types) |-> typeSentences(types[k])])

\* the memory insights of POST /api/openai/complete (index.js:303-313)
MemoryInsights(courseId, holeNumber, shotType, club) ==
  /\ Truthy(courseId)
  /\ holeNumber # 0
  /\ query' = Query("memoryInsights", courseId, holeNumber, shotType, club)
  /\ out' = LET relevantShots == findRelevantShots(file, courseId, holeNumber, shotType, club)
            IN IF Len(relevantShots) > 0
               THEN generateInsightsFromHistory(relevantShots)
               ELSE <<>>
  /\ UNCHANGED <<file, active, started, appended, resp, updates, store0>>

\* number of records of the stores the insights are generated from
MaxInsightShots == 4

FairwayContext == MockShotContext("approach")
RoughContext ==
  [shotType |-> "chip", surface |-> "rough",
   conditions |-> [wind |-> "light", elevation |-> "flat"]]

\* shots of one hole: analysed approach shots recommended a 7 iron, chips
\* recommended an SW from the rough, and feedback-only records
InsightShots ==
  {[BlankShot EXCEPT !.id = "shot", !.courseId = "pebble", !.holeNumber = 5,
                     !.shotType = k[1], !.recommendation = k[2],
                     !.shotContext = k[3], !.userFeedback = fb,
                     !.timestamp = 1] :
     k \in {<<"approach", <<MockRecommendation("approach")>>, <<FairwayContext>>>>,
            <<"approach", <<MockRecommendation("chip")>>, <<RoughContext>>>>,
            <<Undefined, <<>>, <<>>>>},
     fb \in {Null, "helpful", "off"}}

\* ten approach shots of the hole, seven found helpful and three off: the
\* helpful fraction is exactly PositivePct
SevenOfTen ==
  [i \in 1..10 |->
     [BlankShot EXCEPT !.id = "shot", !.courseId = "pebble", !.holeNumber = 5,
                       !.shotType = "approach",
                       !.recommendation = <<MockRecommendation("approach")>>,
                       !.shotContext = <<FairwayContext>>,
                       !.userFeedback = IF i <= 7 THEN "helpful" ELSE "off",
                       !.timestamp = 1]]

InitInsights == InitStore(StoresOf(InsightShots, MaxInsightShots) \cup {SevenOfTen})

NextInsights == MemoryInsights("pebble", 5, Undefined, Undefined)

SpecInsights == InitInsights /\ [][NextInsights]_vars

----------------------------------------------------------------------------
(* Course Intelligence Aggregator: GET /api/insights/course *)

\* array.slice(0, n)
Take(s, n) == SubSeq(s, 1, IF Len(s) < n THEN Len(s) ELSE n)

RECURSIVE SumSeq(_)
\* array.reduce((sum, d) => sum + d, 0)
SumSeq(s) == IF s = <<>> THEN 0 ELSE Head(s) + SumSeq(Tail(s))

RECURSIVE AscendingSeq(_)
\* the members of a set of integers, ascending
AscendingSeq(S) ==
  IF S = {} THEN <<>>
  ELSE LET m == CHOOSE x \in S : \A y \in S : x <= y
       IN <<m>> \o AscendingSeq(S \ {m})

\* index.js:744 .slice(0, 10)
TopHolesCap == 10
\* index.js:918 .slice(0, 5)
LatestShotsCap == 5
\* index.js:821 const profile = 150
ProfileDistance == 150
\* index.js:825, 827 diff < -10, diff > 10
ProfileTolerance == 10
\* index.js:772, 776 negativeFeedback >= 2
MinNegativeFeedback == 2
\* index.js:871 roughCount >= 3
MinRoughShots == 3
\* index.js:888 intoWind >= 3
MinWindShots == 3
\* index.js:895 uphillCount >= 2
MinUphillElevations == 2
\* index.js:902 helpfulCount >= 5
MinHelpfulTrend == 5
\* index.js:904 offCount >= 3
MinOffTrend == 3

\* a course filter that keeps every record of the store
CourseShotsUnfiltered(allShots, courseId) == allShots

\* index.js:708-712 allShots.filter(shot => shot.courseId === courseId)
CourseShots(allShots, courseId) ==
  FilterSeq(allShots, {sh \in Range(allShots) : sh.courseId = courseId})

\* index.js:727-734, 737 Object.keys(shotsByHole): integer keys, ascending
HoleKeys(courseShots) == AscendingSeq({sh.holeNumber : sh \in Range(courseShots)})

\* index.js:727-734 shotsByHole[hole]
ShotsByHole(courseShots, hole) ==
  FilterSeq(courseShots, {sh \in Range(courseShots) : sh.holeNumber = hole})

\* a list that is cut to the cap before it is sorted
MostPlayedHolesCapFirst(courseShots) ==
  LET keys == Take(HoleKeys(courseShots), TopHolesCap)
  IN SortDescBy(keys, [h \in Range(keys) |-> Len(ShotsByHole(courseShots, h))])

\* index.js:737-744
MostPlayedHoles(courseShots) ==
  LET keys == HoleKeys(courseShots)
  IN Take(SortDescBy(keys, [h \in Range(keys) |-> Len(ShotsByHole(courseShots, h))]),
          TopHolesCap)

\* index.js:753
NegativeFeedback(shots) ==
  CountIn(shots, {sh \in Range(shots) : sh.userFeedback = "off"})

\* index.js:754 shots.filter(s => s.userFeedback).length
TotalFeedback(shots) ==
  CountIn(shots, {sh \in Range(shots) : Truthy(sh.userFeedback)})

\* a score that counts an even split as tricky (negativeRatio >= 0.5)
AvgOverParInclusive(negativeFeedback, totalFeedback) ==
  IF totalFeedback > 0 /\ 2 * negativeFeedback >= totalFeedback
  THEN [num |-> 2 * negativeFeedback, den |-> totalFeedback]
  ELSE [num |-> 0, den |-> 1]

\* index.js:758-765 avgOverPar, as the fraction num / den
AvgOverPar(negativeFeedback, totalFeedback) ==
  IF totalFeedback > 0 /\ 2 * negativeFeedback > totalFeedback
  THEN [num |-> 2 * negativeFeedback, den |-> totalFeedback]
  ELSE [num |-> 0, den |-> 1]

\* index.js:784, 791 avgOverPar.toFixed(1), read back by parseFloat: the
\* nearest number of tenths, the larger of two equally near
ToFixed1(q) == (2 * 10 * q.num + q.den) \div (2 * q.den)

\* index.js:768-770
HasUphill(shots) ==
  LET contexts == Contexts(shots)
  IN \E i \in 1..Len(contexts) :
       /\ Truthy(contexts[i].conditions.elevation)
       /\ IncludesPlus(contexts[i].conditions.elevation)

\* a note that puts the negative-feedback count before the uphill note
TrickyNoteCountFirst(hasUphill, negativeFeedback) ==
  IF negativeFeedback >= MinNegativeFeedback
  THEN [text |-> "User had difficulty with previous shots", count |-> negativeFeedback]
  ELSE IF hasUphill THEN [text |-> "Uphill approach, user underclubs", count |-> 0]
       ELSE [text |-> "Challenging hole based on shot history", count |-> 0]

\* index.js:773-780 the note: its template and the count it interpolates
TrickyNote(hasUphill, negativeFeedback) ==
  IF hasUphill THEN [text |-> "Uphill approach, user underclubs", count |-> 0]
  ELSE IF negativeFeedback >= MinNegativeFeedback
       THEN [text |-> "User had difficulty with previous shots",
             count |-> negativeFeedback]
       ELSE [text |-> "Challenging hole based on shot history", count |-> 0]

\* index.js:747-788 the entry of one hole, if it has one
TrickyEntry(hole, shots) ==
  LET negativeFeedback == NegativeFeedback(shots)
      avgOverPar == AvgOverPar(negativeFeedback, TotalFeedback(shots))
      hasUphill == HasUphill(shots)
  IN IF avgOverPar.num > 0 \/ hasUphill \/ negativeFeedback >= MinNegativeFeedback
     THEN <<[hole |-> hole, avgOverPar |-> ToFixed1(avgOverPar),
             note |-> TrickyNote(hasUphill, negativeFeedback)]>>
     ELSE <<>>

\* index.js:747-791
TrickyHoles(courseShots) ==
  LET keys == HoleKeys(courseShots)
      entries == ConcatAll([k \in 1..Len(keys) |->
                              TrickyEntry(keys[k], ShotsByHole(courseShots, keys[k]))])
  IN SortDescBy(entries, [e \in Range(entries) |-> e.avgOverPar])

\* index.js:796 shot.recommendation?.club || shot.clubUsed
ClubOf(shot) ==
  IF Truthy(RecommendationClub(shot)) THEN RecommendationClub(shot) ELSE shot.clubUsed

\* index.js:814-839 the entry of one club, if it has distance samples
ClubEntry(club, courseShots) ==
  LET shots == FilterSeq(courseShots,
                         {sh \in Range(courseShots) : ClubOf(sh) = club /\ sh.distance # 0})
      n == Len(shots)
      sum == SumSeq([i \in 1..n |-> shots[i].distance])
  IN IF n = 0 THEN <<>>
     ELSE <<[club |-> club,
             avg |-> (2 * sum + n) \div (2 * n),
             profile |-> ProfileDistance,
             note |-> IF sum < (ProfileDistance - ProfileTolerance) * n
                      THEN "User hits this short here"
                      ELSE IF sum > (ProfileDistance + ProfileTolerance) * n
                      THEN "User hits this longer here"
                      ELSE "Distance matches profile"]>>

\* index.js:794-839
ClubInsights(courseShots) ==
  LET clubs == Uniq(FilterTruthy([i \in 1..Len(courseShots) |-> ClubOf(courseShots[i])]))
  IN ConcatAll([k \in 1..Len(clubs) |-> ClubEntry(clubs[k], courseShots)])

\* index.js:876-891 the wind note of one hole, if it has one
WindNote(hole, holeShots) ==
  LET contexts == Contexts(holeShots)
      into == CountIn(contexts, {c \in Range(contexts) : c.conditions.wind = "into"})
      strong == CountIn(contexts, {c \in Range(contexts) : c.conditions.wind = "strong"})
      intoWind == IF into # 0 THEN into ELSE strong
  IN IF intoWind >= MinWindShots
     THEN <<[note |-> "Wind was into on Hole N three rounds in a row.", hole |-> hole]>>
     ELSE <<>>

\* index.js:842-906
AiNotes(courseShots) ==
  LET contexts == Contexts(courseShots)
      keys == HoleKeys(courseShots)
      roughCount == CountIn(contexts, {c \in Range(contexts) : c.surface = "rough"})
      uphillCount ==
        Cardinality({c.conditions.elevation : c \in
                       {d \in Range(contexts) :
                          /\ Truthy(d.conditions.elevation)
                          /\ IncludesPlus(d.conditions.elevation)}})
      helpfulCount == CountIn(courseShots,
                              {sh \in Range(courseShots) : sh.userFeedback = "helpful"})
      offCount == CountIn(courseShots,
                          {sh \in Range(courseShots) : sh.userFeedback = "off"})
  IN (IF roughCount >= MinRoughShots
      THEN <<[note |-> "Fairways were soft on your last round.", hole |-> 0]>>
      ELSE <<>>)
     \o ConcatAll([k \in 1..Len(keys) |->
                     WindNote(keys[k], ShotsByHole(courseShots, keys[k]))])
     \o (IF uphillCount >= MinUphillElevations
         THEN <<[note |-> "Course has several uphill holes. Consider club selection.",
                 hole |-> 0]>>
         ELSE <<>>)
     \o (IF helpfulCount > offCount * 2 /\ helpfulCount >= MinHelpfulTrend
         THEN <<[note |-> "AI recommendations have been working well on this course.",
                 hole |-> 0]>>
         ELSE IF offCount > helpfulCount /\ offCount >= MinOffTrend
         THEN <<[note |-> "AI recommendations may need adjustment for this course's conditions.",
                 hole |-> 0]>>
         ELSE <<>>)

\* index.js:918-928 the display subset of one shot
ShotDetail(shot) ==
  [id |-> shot.id,
   timestamp |-> IF shot.timestamp # NoTime THEN shot.timestamp ELSE shot.uploadedAt,
   shotType |-> IF Truthy(shot.shotType) THEN shot.shotType ELSE "approach",
   recommendation |-> shot.recommendation,
   userFeedback |-> IF Truthy(shot.userFeedback) THEN shot.userFeedback ELSE Null,
   club |-> IF Truthy(ClubOf(shot)) THEN ClubOf(shot) ELSE Null,
   distance |-> shot.distance,
   shotContext |-> shot.shotContext]

\* index.js:909-934 (the final sort by hole leaves the ascending keys as they are)
HoleDetails(courseShots) ==
  LET keys == HoleKeys(courseShots)
  IN [k \in 1..Len(keys) |->
        LET latest == Take(SortNewestFirst(ShotsByHole(courseShots, keys[k])),
                           LatestShotsCap)
        IN [hole |-> keys[k],
            shots |-> [i \in 1..Len(latest) |-> ShotDetail(latest[i])]]]

\* index.js:704-943 the response body, and the avgOverPar computed per hole
CourseInsights(f, courseId) ==
  LET courseShots == CourseShots(loadShots(f, TRUE).items, courseId)
      keys == HoleKeys(courseShots)
  IN IF Len(courseShots) = 0
     THEN [status |-> 200, courseId |-> courseId, mostPlayedHoles |-> <<>>,
           trickyHoles |-> <<>>, clubInsights |-> <<>>, aiNotes |-> <<>>,
           holeDetails |-> <<>>, avgOverPar |-> <<>>]
     ELSE [status |-> 200, courseId |-> courseId,
           mostPlayedHoles |-> MostPlayedHoles(courseShots),
           trickyHoles |-> TrickyHoles(courseShots),
           clubInsights |-> ClubInsights(courseShots),
           aiNotes |-> AiNotes(courseShots),
           holeDetails |-> HoleDetails(courseShots),
           avgOverPar |->
             [h \in Range(keys) |->
                AvgOverPar(NegativeFeedback(ShotsByHole(courseShots, h)),
                           TotalFeedback(ShotsByHole(courseShots, h)))]]

\* GET /api/insights/course (index.js:696-957)
CourseIntelligence(courseId) ==
  /\ Truthy(courseId)
  /\ query' = Query("courseInsights", courseId, 0, Undefined, Undefined)
  /\ out' = CourseInsights(file, courseId)
  /\ UNCHANGED <<file, active, started, appended, resp, updates, store0>>

\* number of records of the stores the course intelligence is computed from
MaxCourseShots == 4

\* shots of two holes of one course: analysed shots without a verdict and
\* feedback-only records; and one record of another course
CourseStoreShots ==
  {IF fb = Null
   THEN PhotoShotData("pebble", h, "approach", Undefined, 0, 1, "a")
   ELSE FeedbackData("pebble", h, "7 iron", fb, 1, "a") :
     h \in Holes, fb \in {Null, "helpful", "off"}}
    \cup {FeedbackData("augusta", 1, "7 iron", "off", 1, "a")}

\* feedback-only records of a hole: off verdicts, then helpful ones
Verdicts(hole, off, helpful) ==
  [i \in 1..(off + helpful) |->
     FeedbackData("pebble", hole, "7 iron", IF i <= off THEN "off" ELSE "helpful", 1, "a")]

\* hole 1 with 7 of 11 verdicts off (score 1.27...) and hole 2 with 2 of 3
\* off (score 1.33...): both are reported as "1.3"
RoundedTie == Verdicts(1, 7, 4) \o Verdicts(2, 2, 1)

\* one verdict on each of the holes 1..11 and a second one on hole 11: more
\* holes than TopHolesCap, the most played one last in key order
ElevenHoles ==
  [i \in 1..12 |->
     FeedbackData("pebble", IF i = 12 THEN 11 ELSE i, "7 iron", "helpful", 1, "a")]

InitCourse ==
  InitStore(StoresOf(CourseStoreShots, MaxCourseShots) \cup {RoundedTie, ElevenHoles})

NextCourse == \E c \in {"pebble", "augusta", "st-andrews"} : CourseIntelligence(c)

SpecCourse == InitCourse /\ [][NextCourse]_vars

\* shots of two holes whose recorded wind is "into", "strong" or "light"
\* (index.js:887 reads the first two; the mock context of index.js:618
\* writes only "light", so such records come with the document found)
WindShots ==
  {[BlankShot EXCEPT !.id = "shot", !.courseId = "pebble", !.holeNumber = h,
                     !.shotType = "approach",
                     !.shotContext =
                        <<[shotType |-> "approach", surface |-> "fairway",
                           conditions |-> [wind |-> w, elevation |-> "flat"]]>>,
                     !.timestamp = 1] :
     h \in Holes, w \in {"into", "strong", "light"}}

InitWind == InitStore(StoresOf(WindShots, MaxCourseShots))

NextWind == CourseIntelligence("pebble")

SpecWind == InitWind /\ [][NextWind]_vars

----------------------------------------------------------------------------
(* The three read operations on one document: findRelevantShots,            *)
(* generateInsightsFromHistory on its result, and the course intelligence.  *)
(* Each starts with loadShots() (index.js:117, 705) and none calls          *)
(* saveShots; filter builds a new array and sort orders that array.         *)

\* analysed shots of one hole and feedback-only records of two holes, taken
\* at different times
ReadShots ==
  {PhotoShotData("pebble", 1, "approach", Undefined, 0, t, "a") : t \in Times}
    \cup {FeedbackData("pebble", h, "7 iron", "off", t, "a") : h \in Holes, t \in Times}

\* the document holds any such records, or is missing, or is unparseable
InitReads ==
  /\ store0 \in StoresOf(ReadShots, MaxShots)
  /\ file \in {[state |-> "present", text |-> JSONstringify(store0)]}
                \cup (IF store0 = <<>> THEN {AbsentFile, TruncatedFile} ELSE {})
  /\ active = {}
  /\ started = 0
  /\ appended = <<>>
  /\ resp = NoResponse
  /\ updates = 0
  /\ query = NoQuery
  /\ out = <<>>

NextReads ==
  \/ \E c \in Courses, h \in Holes, st \in {Undefined, "approach"} :
       FindRelevant(c, h, st, Undefined)
  \/ \E c \in Courses, h \in Holes : MemoryInsights(c, h, Undefined, Undefined)
  \/ \E c \in Courses : CourseIntelligence(c)

SpecReads == InitReads /\ [][NextReads]_vars

----------------------------------------------------------------------------
(* Claims about the record store, checked under Spec *)

\* the records a read of the store yields now
Stored == loadShots(file, TRUE).items

DistinctIds(shots) ==
  \A i, j \in 1..Len(shots) : shots[i].id = shots[j].id => i = j

Occurrences(shots, id) == Cardinality({i \in 1..Len(shots) : shots[i].id = id})

\* C1: when N addShot calls with pairwise distinct ids (distinct also from the
\* K records the store started with) have all returned, whatever the order in
\* which the event loop ran them, the persisted store holds exactly K+N
\* records and every appended id occurs in it exactly once.
C1_ConcurrentAppendsAllKept ==
  (active = {} /\ DistinctIds(store0 \o appended)) =>
    /\ Len(Stored) = Len(store0) + Len(appended)
    /\ \A k \in 1..Len(appended) : Occurrences(Stored, appended[k].id) = 1

C1_Witness ==
  /\ active = {}
  /\ Len(store0) = 1
  /\ Len(appended) = 3
  /\ DistinctIds(store0 \o appended)

\* the document after a store call returns is the call applied to the document
\* as it was just before the return (not to an older snapshot)
AppliedToCurrent(fr) ==
  IF fr.op = "addShot"
  THEN loadShots(file', TRUE).items = Append(Stored, fr.shotData)
  ELSE LET i == FindShot(Stored, fr.shotId)
       IN IF i # 0
          THEN \E t \in Times :
                 loadShots(file', TRUE).items = SetFeedback(Stored, i, fr.feedback, t)
          ELSE loadShots(file', TRUE).items = Stored

\* C2: store mutations exclude each other over the whole read-modify-write
\* cycle: at most one addShot / updateShotFeedback call is ever between its
\* load and its return, and each call's write is applied to the document as
\* the previous call left it, so no call's write is lost.
C2_MutationsMutuallyExclusive ==
  /\ [](Cardinality(active) <= 1)
  /\ [][\A fr \in active : fr \notin active' => AppliedToCurrent(fr)]_vars

C2_Witness ==
  /\ active = {}
  /\ resp.op = "updateShotFeedback"
  /\ resp.returned = "true"
  /\ Len(appended) = 2
  /\ Stored[Len(Stored) - 1].id = resp.shotId
  /\ Stored[Len(Stored) - 1].userFeedback = "off"
  /\ Stored[Len(Stored)] = appended[2]

\* C3: from an empty store, after addShot calls only, a read yields exactly
\* the appended records, in append order, every field as it was appended.
C3_AppendReadRoundTrip ==
  (store0 = <<>> /\ updates = 0 /\ active = {}) => Stored = appended

C3_Witness ==
  /\ store0 = <<>>
  /\ updates = 0
  /\ active = {}
  /\ Len(appended) = 3
  /\ appended[1].id = FeedbackId(2, "a")
  /\ appended[2].id = ShotId(2, "a")
  /\ appended[3].id = ShotId(1, "a")

\* C4: feedback with a (non-empty) shotId that no stored record has is
\* acknowledged with success, makes no persistence write and leaves the
\* document exactly as it was: no record changed, none appended.
C4_FeedbackNotFoundNoOp ==
  [][\A fr \in active :
       (/\ fr \notin active'
        /\ fr.handler = "feedback"
        /\ Truthy(fr.shotId)
        /\ FindShot(Stored, fr.shotId) = 0)
       => /\ file' = file
          /\ resp'.status = 200
          /\ resp'.saved = FALSE
          /\ resp'.returned = "false"]_vars

C4_Witness ==
  /\ resp.handler = "feedback"
  /\ resp.shotId = "nonexistent"
  /\ resp.returned = "false"
  /\ resp.status = 200
  /\ Len(Stored) = 2

\* a record without its two feedback fields
WriteOnce(shot) ==
  [shot EXCEPT !.userFeedback = Null, !.feedbackTimestamp = NoTime]

\* the document as the step leaves it
StoredAfter == loadShots(file', TRUE).items

\* the store call that returns in this step
Returns(fr) == fr \in active /\ fr \notin active'

\* C13: after any sequence of addShot and updateShotFeedback calls every
\* stored record's fields other than userFeedback and feedbackTimestamp are
\* as the record was appended; an updateShotFeedback changes only those two
\* fields of the record with the id and leaves every other record and the
\* order of the records unchanged.
C13_OnlyFeedbackFieldsChange ==
  /\ [](LET written == store0 \o appended
        IN /\ Len(Stored) = Len(written)
           /\ \A i \in 1..Len(Stored) : WriteOnce(Stored[i]) = WriteOnce(written[i]))
  /\ [][\A fr \in active :
          (Returns(fr) /\ fr.op = "updateShotFeedback") =>
            LET i == FindShot(Stored, fr.shotId)
            IN /\ Len(StoredAfter) = Len(Stored)
               /\ \A j \in 1..Len(Stored) :
                    IF j = i THEN WriteOnce(StoredAfter[j]) = WriteOnce(Stored[j])
                    ELSE StoredAfter[j] = Stored[j]]_vars

C13_Witness ==
  /\ resp.op = "updateShotFeedback"
  /\ resp.returned = "true"
  /\ store0 = <<EarlierShot>>
  /\ Len(Stored) = 3
  /\ Stored[1] = EarlierShot
  /\ Stored[2].id = resp.shotId
  /\ Stored[2].userFeedback = "helpful"
  /\ Stored[2].feedbackTimestamp = 2
  /\ Stored[2].timestamp = 1
  /\ Stored[3] = appended[2]

\* C17: no two stored records share an id, whether photo analysis or
\* feedback without shotId created them.
C17_IdsUnique == DistinctIds(Stored)

\* C18: a successful updateShotFeedback leaves the record's userFeedback
\* equal to the feedback of that call, so of two calls the later one wins;
\* a newly captured shot is stored with userFeedback null, and a record's
\* userFeedback changes only by such a call on its id.
C18_LaterFeedbackOverwrites ==
  [][/\ \A fr \in active :
          (Returns(fr) /\ fr.op = "updateShotFeedback"
             /\ FindShot(Stored, fr.shotId) # 0) =>
            StoredAfter[FindShot(Stored, fr.shotId)].userFeedback = fr.feedback
     /\ \A fr \in active :
          (Returns(fr) /\ fr.handler = "photo") =>
            StoredAfter[Len(StoredAfter)].userFeedback = Null
     /\ \A i \in 1..Len(Stored) :
          StoredAfter[i].userFeedback # Stored[i].userFeedback =>
            \E fr \in active :
              Returns(fr) /\ fr.op = "updateShotFeedback" /\ fr.shotId = Stored[i].id]_vars

C18_Witness ==
  /\ updates = 2
  /\ resp.op = "updateShotFeedback"
  /\ resp.returned = "true"
  /\ resp.replaced = "helpful"
  /\ Len(appended) = 1
  /\ appended[1].id = resp.shotId
  /\ appended[1].userFeedback = Null
  /\ Stored[Len(Stored)].id = resp.shotId
  /\ Stored[Len(Stored)].userFeedback = "off"
----------------------------------------------------------------------------
(* Claims about findRelevantShots, checked under SpecRelevant *)

Asked(op) == query.op = op

BestKnownTime(sh) ==
  IF sh.timestamp # NoTime THEN sh.timestamp
  ELSE IF sh.uploadedAt # NoTime THEN sh.uploadedAt ELSE 0

\* C6: findRelevantShots returns the matching records in descending order of
\* best-known time (timestamp, else uploadedAt, else epoch), whatever order
\* they are stored in.
C6_NewestFirst ==
  Asked("findRelevantShots") =>
    \A i, j \in 1..Len(out) :
      i < j => BestKnownTime(out[i]) >= BestKnownTime(out[j])

C6_Witness ==
  /\ Asked("findRelevantShots")
  /\ Len(out) = 3
  /\ out[1].timestamp = 3
  /\ out[2].timestamp = NoTime /\ out[2].uploadedAt = 2
  /\ out[3].timestamp = NoTime /\ out[3].uploadedAt = NoTime
  /\ Stored[1] = out[3] /\ Stored[2] = out[2] /\ Stored[3] = out[1]

\* C21: when the query supplies a shotType every returned record has that
\* shotType; when it supplies a club every returned record has
\* recommendation.club equal to it, and a record with no recommendation is
\* never returned for such a query.
C21_TypeAndClubFilters ==
  Asked("findRelevantShots") =>
    \A k \in 1..Len(out) :
      /\ Truthy(query.shotType) => out[k].shotType = query.shotType
      /\ Truthy(query.club) =>
           /\ out[k].recommendation # <<>>
           /\ out[k].recommendation[1].club = query.club

C21_Witness ==
  /\ Asked("findRelevantShots")
  /\ query.shotType = "approach"
  /\ query.club = "7 iron"
  /\ Len(Stored) = 3
  /\ Stored[1].recommendation = <<>>
  /\ Stored[2].shotType = "approach" /\ RecommendationClub(Stored[2]) = "Putter"
  /\ Stored[3].shotType = "approach" /\ RecommendationClub(Stored[3]) = "7 iron"
  /\ out = <<Stored[3]>>
----------------------------------------------------------------------------
(* Claims about generateInsightsFromHistory, checked under SpecInsights *)

\* the relevant shots the last memory lookup passed to the synthesizer
Relevant ==
  findRelevantShots(file, query.courseId, query.holeNumber, query.shotType, query.club)

\* the (shotType, hole) groups of the shots rel
GroupKeys(rel) ==
  {<<IF Truthy(sh.shotType) THEN sh.shotType ELSE "unknown", sh.holeNumber>> :
     sh \in Range(rel)}

GroupIndices(rel, g) ==
  {i \in 1..Len(rel) :
     /\ (IF Truthy(rel[i].shotType) THEN rel[i].shotType ELSE "unknown") = g[1]
     /\ rel[i].holeNumber = g[2]}

HelpfulOf(rel, g) ==
  Cardinality({i \in GroupIndices(rel, g) : rel[i].userFeedback = "helpful"})

OffOf(rel, g) ==
  Cardinality({i \in GroupIndices(rel, g) : rel[i].userFeedback = "off"})

\* the distinct recommendation clubs of a group
ClubsOf(rel, g) ==
  {rel[i].recommendation[1].club :
     i \in {k \in GroupIndices(rel, g) : rel[k].recommendation # <<>>}}

\* the feedback-statistic sentences of a kind emitted for a group
StatSentences(g, kind) ==
  {k \in 1..Len(out) :
     out[k].kind = kind /\ out[k].shotType = g[1] /\ out[k].hole = g[2]}

\* C9: a (shotType, hole) group with helpfulCount >= 2 and
\* helpfulCount / (helpfulCount + offCount) >= 70% gets a positive-feedback
\* sentence naming the hole, both counts and the group's distinct
\* recommendation clubs.
C9_PositivePattern ==
  Asked("memoryInsights") =>
    LET rel == Relevant
    IN \A g \in GroupKeys(rel) :
         LET h == HelpfulOf(rel, g)
             o == OffOf(rel, g)
         IN (h >= 2 /\ 10 * h >= 7 * (h + o)) =>
              \E k \in StatSentences(g, "positive") :
                /\ out[k].helpful = h
                /\ out[k].off = o
                /\ Range(out[k].clubs) = ClubsOf(rel, g)
                /\ Len(out[k].clubs) = Cardinality(ClubsOf(rel, g))

C9_Witness ==
  /\ Asked("memoryInsights")
  /\ LET rel == Relevant
         g == <<"approach", 5>>
     IN /\ HelpfulOf(rel, g) = 3
        /\ OffOf(rel, g) = 1
        /\ ClubsOf(rel, g) = {"7 iron", "SW"}
        /\ StatSentences(g, "positive") # {}

\* C10: a group that satisfies neither the negative rule (helpful fraction
\* below 50%) nor the positive rule (helpful fraction at least 70% and
\* helpfulCount >= 2) gets no feedback-statistic sentence.
C10_SilenceOnMixedSignal ==
  Asked("memoryInsights") =>
    LET rel == Relevant
    IN \A g \in GroupKeys(rel) :
         LET h == HelpfulOf(rel, g)
             o == OffOf(rel, g)
             negative == h + o > 0 /\ 2 * h < h + o
             positive == h + o > 0 /\ 10 * h >= 7 * (h + o) /\ h >= 2
         IN (~negative /\ ~positive) =>
              StatSentences(g, "negative") \cup StatSentences(g, "positive") = {}

C10_Witness ==
  /\ Asked("memoryInsights")
  /\ LET rel == Relevant
     IN /\ HelpfulOf(rel, <<"approach", 5>>) = 1
        /\ OffOf(rel, <<"approach", 5>>) = 1
        /\ HelpfulOf(rel, <<"unknown", 5>>) = 1
        /\ OffOf(rel, <<"unknown", 5>>) = 0
        /\ \A k \in 1..Len(out) : out[k].kind \notin {"negative", "positive"}

\* C19: a (shotType, hole) group with offCount > 0 and
\* helpfulCount / (helpfulCount + offCount) < 50% gets a negative-pattern
\* sentence naming the hole, both counts and the group's distinct
\* recommendation clubs; no group gets both the negative and the positive
\* sentence.
C19_NegativePattern ==
  Asked("memoryInsights") =>
    LET rel == Relevant
    IN \A g \in GroupKeys(rel) :
         LET h == HelpfulOf(rel, g)
             o == OffOf(rel, g)
         IN /\ (o > 0 /\ 2 * h < h + o) =>
                 \E k \in StatSentences(g, "negative") :
                   /\ out[k].helpful = h
                   /\ out[k].off = o
                   /\ Range(out[k].clubs) = ClubsOf(rel, g)
                   /\ Len(out[k].clubs) = Cardinality(ClubsOf(rel, g))
            /\ StatSentences(g, "negative") = {} \/ StatSentences(g, "positive") = {}

C19_Witness ==
  /\ Asked("memoryInsights")
  /\ LET rel == Relevant
         g == <<"approach", 5>>
     IN /\ HelpfulOf(rel, g) = 1
        /\ OffOf(rel, g) = 2
        /\ ClubsOf(rel, g) = {"7 iron", "SW"}
        /\ StatSentences(g, "negative") # {}
        /\ StatSentences(g, "positive") = {}

\* the shots of a group whose elevation string contains "+"
UphillOf(rel, g) ==
  Cardinality({i \in GroupIndices(rel, g) :
                 /\ rel[i].shotContext # <<>>
                 /\ IncludesPlus(rel[i].shotContext[1].conditions.elevation)})

\* C20: a group with a shot whose elevation string contains "+" gets an
\* uphill sentence whose count is the number of the group's shots whose
\* elevation contains "+" (three shots recorded as "+4ft" report 3).
C20_UphillCountsShots ==
  Asked("memoryInsights") =>
    LET rel == Relevant
    IN \A g \in GroupKeys(rel) :
         UphillOf(rel, g) > 0 =>
           \E k \in StatSentences(g, "uphill") : out[k].count = UphillOf(rel, g)
----------------------------------------------------------------------------
(* Claims about the course intelligence, checked under SpecCourse *)

\* the stored records of the queried course
OfCourse == {i \in 1..Len(Stored) : Stored[i].courseId = query.courseId}

\* C7: course intelligence for a courseId with zero stored records is a
\* non-error result with the queried courseId and with mostPlayedHoles,
\* trickyHoles, clubInsights, aiNotes and holeDetails all empty.
C7_EmptyCourse ==
  (Asked("courseInsights") /\ OfCourse = {}) =>
    /\ out.status = 200
    /\ out.courseId = query.courseId
    /\ out.mostPlayedHoles = <<>>
    /\ out.trickyHoles = <<>>
    /\ out.clubInsights = <<>>
    /\ out.aiNotes = <<>>
    /\ out.holeDetails = <<>>

C7_Witness ==
  /\ Asked("courseInsights")
  /\ query.courseId = "st-andrews"
  /\ Len(Stored) = 4
  /\ out.status = 200
  /\ out.mostPlayedHoles = <<>>

\* C8: for each hole of the course the tricky score avgOverPar is
\* 2 * offCount / totalFeedbackCount when there is feedback and the "off"
\* verdicts are a strict majority of it, and 0 otherwise; 3 off and 1 helpful
\* give 1.5, reported as "1.5".
C8_TrickyScore ==
  Asked("courseInsights") =>
    \A h \in {Stored[i].holeNumber : i \in OfCourse} :
      LET onHole == {i \in OfCourse : Stored[i].holeNumber = h}
          offCount == Cardinality({i \in onHole : Stored[i].userFeedback = "off"})
          total == Cardinality({i \in onHole :
                                  Stored[i].userFeedback \notin {Null, Undefined}})
          score == out.avgOverPar[h]
      IN /\ IF total > 0 /\ 2 * offCount > total
            THEN score.num * total = 2 * offCount * score.den
            ELSE score.num = 0
         /\ (offCount = 3 /\ total = 4) =>
              \E k \in 1..Len(out.trickyHoles) :
                out.trickyHoles[k].hole = h /\ out.trickyHoles[k].avgOverPar = 15

C8_Witness ==
  /\ Asked("courseInsights")
  /\ Len(out.trickyHoles) = 1
  /\ out.trickyHoles[1].hole = 2
  /\ out.trickyHoles[1].avgOverPar = 15
  /\ Cardinality({i \in OfCourse : Stored[i].userFeedback = "off"}) = 3
  /\ Cardinality({i \in OfCourse : Stored[i].userFeedback = "helpful"}) = 1

\* the holes of the queried course and, per hole, its records
HolesOfCourse == {Stored[i].holeNumber : i \in OfCourse}
OnHole(h) == {i \in OfCourse : Stored[i].holeNumber = h}
OffOn(h) == Cardinality({i \in OnHole(h) : Stored[i].userFeedback = "off"})
UphillOn(h) ==
  \E i \in OnHole(h) :
    /\ Stored[i].shotContext # <<>>
    /\ IncludesPlus(Stored[i].shotContext[1].conditions.elevation)

\* the entries of trickyHoles for hole h
TrickyEntries(h) == {k \in 1..Len(out.trickyHoles) : out.trickyHoles[k].hole = h}

\* a hole has an entry exactly when its score is > 0, or it is uphill, or it
\* has at least 2 off verdicts; the entry's note is chosen by the priority
\* uphill, negative-feedback count, generic
TrickyInclusionAndNote ==
  /\ \A k \in 1..Len(out.trickyHoles) : out.trickyHoles[k].hole \in HolesOfCourse
  /\ \A h \in HolesOfCourse :
       /\ Cardinality(TrickyEntries(h)) <= 1
       /\ TrickyEntries(h) # {} <=>
            (out.avgOverPar[h].num > 0 \/ UphillOn(h) \/ OffOn(h) >= 2)
       /\ \A k \in TrickyEntries(h) :
            out.trickyHoles[k].note =
              IF UphillOn(h)
              THEN [text |-> "Uphill approach, user underclubs", count |-> 0]
              ELSE IF OffOn(h) >= 2
              THEN [text |-> "User had difficulty with previous shots", count |-> OffOn(h)]
              ELSE [text |-> "Challenging hole based on shot history", count |-> 0]

\* C22 as stated: inclusion and note as above, and the entries are ordered by
\* descending tricky score (the score 2 * off / total of C8).
C22_TrickyHolesByScore ==
  Asked("courseInsights") =>
    /\ TrickyInclusionAndNote
    /\ \A k, l \in 1..Len(out.trickyHoles) :
         k < l =>
           LET a == out.avgOverPar[out.trickyHoles[k].hole]
               b == out.avgOverPar[out.trickyHoles[l].hole]
           IN a.num * b.den >= b.num * a.den

\* C22, amended: inclusion and note as above, and the entries are ordered by
\* descending reported score, the score rounded to one decimal; entries whose
\* reported scores are equal are in ascending order of hole number.
C22_TrickyHolesByReportedScore ==
  Asked("courseInsights") =>
    /\ TrickyInclusionAndNote
    /\ \A k, l \in 1..Len(out.trickyHoles) :
         k < l =>
           \/ out.trickyHoles[k].avgOverPar > out.trickyHoles[l].avgOverPar
           \/ /\ out.trickyHoles[k].avgOverPar = out.trickyHoles[l].avgOverPar
              /\ out.trickyHoles[k].hole < out.trickyHoles[l].hole

C22_Witness ==
  /\ Asked("courseInsights")
  /\ Len(Stored) = 4
  /\ HolesOfCourse = {1, 2}
  /\ UphillOn(1) /\ OffOn(1) = 0
  /\ ~UphillOn(2) /\ OffOn(2) = 2
  /\ Len(out.trickyHoles) = 2
  /\ out.trickyHoles[1].hole = 2
  /\ out.trickyHoles[1].avgOverPar = 13
  /\ out.trickyHoles[1].note.count = 2
  /\ out.trickyHoles[2].hole = 1
  /\ out.trickyHoles[2].avgOverPar = 0
  /\ out.trickyHoles[2].note.text = "Uphill approach, user underclubs"

\* C24: mostPlayedHoles lists distinct hole numbers that each have a record
\* of the course, at most 10 of them, in non-increasing order of the hole's
\* shot count, and no hole left out has more shots than a hole in the list.
C24_MostPlayedHoles ==
  Asked("courseInsights") =>
    LET listed == out.mostPlayedHoles
        count(h) == Cardinality(OnHole(h))
    IN /\ \A k \in 1..Len(listed) : listed[k] \in HolesOfCourse
       /\ \A k, l \in 1..Len(listed) : listed[k] = listed[l] => k = l
       /\ Len(listed) <= 10
       /\ \A k, l \in 1..Len(listed) : k < l => count(listed[k]) >= count(listed[l])
       /\ \A h \in HolesOfCourse \ Range(listed) :
            \A k \in 1..Len(listed) : count(h) <= count(listed[k])

C24_Witness ==
  /\ Asked("courseInsights")
  /\ Cardinality(HolesOfCourse) = 11
  /\ Len(out.mostPlayedHoles) = 10
  /\ out.mostPlayedHoles[1] = 11
  /\ Cardinality(OnHole(11)) = 2
  /\ 10 \notin Range(out.mostPlayedHoles)

\* the shots of hole h whose recorded wind is "into" or "strong"
IntoWindOn(h) ==
  Cardinality({i \in OnHole(h) :
                 /\ Stored[i].shotContext # <<>>
                 /\ Stored[i].shotContext[1].conditions.wind \in {"into", "strong"}})

\* C23 (checked under SpecWind): aiNotes contain the wind note of hole N
\* whenever hole N has at least 3 shots whose wind is "into" or "strong",
\* shots of either value counted together, and no wind note for a hole with
\* fewer than 3 such shots.
C23_WindNote ==
  Asked("courseInsights") =>
    \A h \in HolesOfCourse :
      IntoWindOn(h) >= 3 <=>
        \E k \in 1..Len(out.aiNotes) :
          /\ out.aiNotes[k].note = "Wind was into on Hole N three rounds in a row."
          /\ out.aiNotes[k].hole = h

----------------------------------------------------------------------------
(* Claims about degraded conditions, checked under SpecDegraded *)

\* the document does not denote a list of records
Malformed(f) == f.state = "present" /\ f.text.json # "array"

\* C11: reading the store never raises and always yields a list of records,
\* the empty list when the document is absent or malformed (unparseable, or
\* parseable but not a list), so that the store call that follows the read
\* completes without raising.
C11_LoadAlwaysYieldsList ==
  /\ \A readOk \in BOOLEAN :
       /\ loadShots(file, readOk).isArray
       /\ (file.state = "absent" \/ Malformed(file))
            => loadShots(file, readOk) = Array(<<>>)
  /\ \A fr \in active : fr.isArray
  /\ resp.returned # "TypeError"

\* C12: when the persistence write fails the mutating call does not raise and
\* returns the boolean false to its caller.
C12_WriteFailureReported ==
  resp.failed => resp.returned = "false"

\* C14: no step of the core, a step that follows a failed load included,
\* removes a record: every record the document holds is still in it, at the
\* same place, after the step.
C14_NeverDeleted ==
  [][LET after == loadShots(file', TRUE).items
     IN /\ Len(after) >= Len(Stored)
        /\ \A i \in 1..Len(Stored) : WriteOnce(after[i]) = WriteOnce(Stored[i])]_vars

\* C16: every stored record's userFeedback is null, "helpful" or "off",
\* whatever feedback value the client sent, with or without a shotId.
C16_FeedbackDomain ==
  \A i \in 1..Len(Stored) : Stored[i].userFeedback \in {Null, "helpful", "off"}

----------------------------------------------------------------------------
(* Claims about readers outside the event loop, checked under SpecOverlap *)

\* the collections a read may yield: the document's, or, while an addShot is
\* between its load and its return, the one before and the one after its write
WholeCollections ==
  IF active = {} THEN {Stored}
  ELSE UNION {{fr.shots, PushShot(fr.shots, fr.shotData)} : fr \in active}

\* C15: a read of the store that overlaps a persistence write yields the
\* complete collection as it was before the write or as it is after it,
\* never a truncated or partially written document.
C15_ReadsSeeWholeDocument ==
  [][(query'.op = "loadShots" /\ file' = file /\ active' = active)
       => out' \in WholeCollections]_vars

----------------------------------------------------------------------------
(* Claims about failing persistence writes, checked under SpecWriteFault *)

\* C25: feedback without a shotId appends exactly one record, which carries
\* the request's courseId, its hole as holeNumber and its feedback as
\* userFeedback and has no recommendation and no shotContext, and leaves
\* every record the store held as it was; the caller is acknowledged (200)
\* also when the persistence write fails.
C25_FeedbackWithoutShotId ==
  [][\A fr \in active :
       (Returns(fr) /\ fr.handler = "feedback" /\ ~Truthy(fr.shotId)) =>
         /\ resp'.status = 200
         /\ resp'.saved =>
              /\ Len(StoredAfter) = Len(fr.shots) + 1
              /\ SubSeq(StoredAfter, 1, Len(fr.shots)) = fr.shots
              /\ LET new == StoredAfter[Len(StoredAfter)]
                 IN /\ new.courseId = fr.request.courseId
                    /\ new.holeNumber = fr.request.hole
                    /\ new.userFeedback = fr.feedback
                    /\ new.recommendation = <<>>
                    /\ new.shotContext = <<>>]_vars

C25_Witness ==
  /\ resp.handler = "feedback"
  /\ resp.op = "addShot"
  /\ resp.saved
  /\ resp.status = 200
  /\ Len(appended) = 2
  /\ Stored = <<EarlierShot, appended[2]>>
  /\ Stored[2].courseId = "augusta"
  /\ Stored[2].holeNumber = 2
  /\ Stored[2].userFeedback = "off"

\* the photo upload answers with the shotId whether or not the write succeeded
PhotoAnswersShotId ==
  [][\A fr \in active :
       (Returns(fr) /\ fr.handler = "photo") =>
         /\ resp'.status = 200
         /\ resp'.shotId = fr.shotData.id]_vars

\* feedback for the id of an uploaded shot whose record is not in the store
\* returns false and leaves the document as it is
UnstoredShotFeedbackIsNoOp ==
  [][\A fr \in active :
       (/\ Returns(fr)
        /\ fr.op = "updateShotFeedback"
        /\ \E k \in 1..Len(appended) :
             appended[k].id = fr.shotId /\ appended[k].recommendation # <<>>
        /\ FindShot(fr.shots, fr.shotId) = 0)
       => /\ resp'.returned = "false"
          /\ file' = file]_vars

\* C26: the photo analysis returns a shotId to the caller whether or not the
\* write of the new shot succeeded; when the write failed the persisted store
\* is as it was before the call; and a later updateShotFeedback with that
\* shotId returns false and changes no record.
C26_PhotoWriteFailure ==
  /\ PhotoAnswersShotId
  /\ [][\A fr \in active :
          (Returns(fr) /\ fr.handler = "photo" /\ resp'.failed) =>
            StoredAfter = fr.shots]_vars
  /\ UnstoredShotFeedbackIsNoOp

----------------------------------------------------------------------------
(* Claims about the read operations, checked under SpecReads *)

\* C27: findRelevantShots, generateInsightsFromHistory and the course
\* intelligence never write the persisted document: the document and the
\* records it yields are the same before and after each of them, for every
\* store content and every query.
C27_ReadsNeverWrite ==
  [][((Asked("findRelevantShots") \/ Asked("memoryInsights") \/ Asked("courseInsights"))')
       => (file' = file /\ StoredAfter = Stored)]_vars

\* a lookup returned two records in the reverse of their stored order, and
\* the store still holds them in the order they were written
C27_Witness ==
  /\ Asked("findRelevantShots")
  /\ Len(Stored) = 2
  /\ Stored[1] # Stored[2]
  /\ out = <<Stored[2], Stored[1]>>
  /\ Stored = store0
====
